---- MODULE Spec2Model ----
(***************************************************************************)
(* Model of youtube_ss.py: capture_every_second(youtube_url, output_dir,   *)
(* start_sec, end_sec).  One call is a straight-line procedure; pc is the  *)
(* statement about to run.  The request, the behaviour of the resolved     *)
(* stream (yt-dlp / cv2.VideoCapture) and the behaviour of the filesystem  *)
(* under cv2.imwrite are inputs fixed in Init, so that the same call can   *)
(* be made twice against the same output directory.                        *)
(*                                                                         *)
(* fps is a float in the source; here it is a natural number and the       *)
(* quotient frame_count / fps is kept exact as the pair                    *)
(* <<frame_count, fps>>, so durations such as 2.5 s occur.                 *)
(***************************************************************************)
EXTENDS Integers, Sequences, FiniteSets

\* ---- bounds ----------------------------------------------------------
MaxSec == 3
MaxFrames == 4
MaxFps == 2

Seconds == 0..MaxSec
ReqSeconds == (0 - 1)..MaxSec
\* an optional value is the empty set (None) or a singleton
Opt(S) == {{}} \cup {{x} : x \in S}
HeadOf(o) == CHOOSE x \in o : TRUE

VARIABLES
  req_start,    \* argument start_sec of the call
  req_end,      \* argument end_sec of the call (optional)
  stream,       \* "ok" | "resolve_fail" | "open_fail"
  stream_fps,   \* what cap.get(CAP_PROP_FPS) returns
  stream_frames,\* what cap.get(CAP_PROP_FRAME_COUNT) returns
  decode_fail,  \* optional second at which cap.read() returns ret = False
  bad_write,    \* optional [sec, kind]: imwrite returns False or raises there
  pc, run, dir_exists, files,
  opened, releases,
  fps, frame_count, duration, divided_by_zero,
  start_sec, end_sec, sec,
  seeks, reads, written, write_failed, saved_log,
  stopped_early, err, files_after_first

vars == <<req_start, req_end, stream, stream_fps, stream_frames, decode_fail,
          bad_write, pc, run, dir_exists, files, opened, releases, fps,
          frame_count, duration, divided_by_zero, start_sec, end_sec, sec,
          seeks, reads, written, write_failed, saved_log, stopped_early, err,
          files_after_first>>

env == <<req_start, req_end, stream, stream_fps, stream_frames, decode_fail,
         bad_write>>
locals == <<fps, frame_count, duration, start_sec, end_sec, sec>>
logs == <<seeks, reads, written, write_failed, saved_log, stopped_early>>

\* ---- pure helpers ------------------------------------------------------
Max(a, b) == IF a >= b THEN a ELSE b

\* int(duration): Python's int() of a float truncates toward zero
PyInt(d) ==
  IF d[1] >= 0 THEN d[1] \div d[2] ELSE 0 - ((0 - d[1]) \div d[2])

\* end_sec > duration, an int compared with the float frame_count / fps
GreaterThanDuration(e, d) == e * d[2] > d[1]

\* start_sec = max(0, start_sec)
ClampStart_noclamp(s) == s
ClampStart(s) == Max(0, s)

\* if end_sec is None or end_sec > duration: end_sec = int(duration)
ClampEnd_onlyNone(e, d) == IF e = {} THEN PyInt(d) ELSE HeadOf(e)
ClampEnd(e, d) ==
  IF e = {} \/ GreaterThanDuration(HeadOf(e), d) THEN PyInt(d) ELSE HeadOf(e)

\* if start_sec > end_sec: raise ValueError
RangeInverted_offByOne(s, e) == s > e + 1
RangeInverted(s, e) == s > e

\* for sec in range(start_sec, end_sec + 1)
InRange_exclusive(s, e) == s < e
InRange(s, e) == s <= e

\* decimal digits of a natural number, most significant first
RECURSIVE Digits(_)
Digits(n) == IF n < 10 THEN <<n>> ELSE Append(Digits(n \div 10), n % 10)

\* zero padding on the left up to width w (no truncation of longer strings)
RECURSIVE ZeroPad(_, _)
ZeroPad(ds, w) == IF Len(ds) >= w THEN ds ELSE ZeroPad(<<0>> \o ds, w)

\* f"frame_{sec:04d}.jpg": the name is represented by its digit string
FrameName_counter(s) == ZeroPad(Digits(Cardinality(files)), 4)
FrameName(s) == ZeroPad(Digits(s), 4)

\* outcome of cv2.imwrite(fname, frame) for the frame of second s
WriteOutcome(s) ==
  IF bad_write # {} /\ HeadOf(bad_write).sec = s
  THEN HeadOf(bad_write).kind ELSE "ok"

\* ---- initial state -----------------------------------------------------
FreshCall ==
  /\ pc = "makedirs"
  /\ opened = FALSE
  /\ releases = 0
  /\ fps = 0
  /\ frame_count = 0
  /\ duration = <<0, 1>>
  /\ divided_by_zero = FALSE
  /\ start_sec = req_start
  /\ end_sec = req_end
  /\ sec = 0
  /\ seeks = <<>>
  /\ reads = <<>>
  /\ written = <<>>
  /\ write_failed = {}
  /\ saved_log = <<>>
  /\ stopped_early = FALSE
  /\ err = "none"

Init ==
  /\ req_start \in ReqSeconds
  /\ req_end \in Opt(ReqSeconds)
  /\ stream \in {"ok", "resolve_fail", "open_fail"}
  /\ stream_fps \in 0..MaxFps
  /\ stream_frames \in 0..MaxFrames
  /\ decode_fail \in Opt(Seconds)
  /\ bad_write \in Opt([sec : Seconds, kind : {"false", "raise"}])
  /\ run = 1
  /\ dir_exists = FALSE
  /\ files = {}
  /\ files_after_first = {}
  /\ FreshCall

\* ---- statements of capture_every_second --------------------------------
\* os.makedirs(output_dir, exist_ok=True)
MakeDirs ==
  /\ pc = "makedirs"
  /\ dir_exists' = TRUE
  /\ pc' = "resolve"
  /\ UNCHANGED <<env, run, files, opened, releases, divided_by_zero, locals,
                 logs, err, files_after_first>>

\* with YoutubeDL(ydl_opts) as ydl: info = ydl.extract_info(...)
Resolve ==
  /\ pc = "resolve"
  /\ IF stream = "resolve_fail"
     THEN /\ err' = "DownloadError"
          /\ pc' = "raised"
     ELSE /\ err' = err
          /\ pc' = "open"
  /\ UNCHANGED <<env, run, dir_exists, files, opened, releases,
                 divided_by_zero, locals, logs, files_after_first>>

\* cap = cv2.VideoCapture(stream_url); if not cap.isOpened(): raise
Open ==
  /\ pc = "open"
  /\ IF stream = "open_fail"
     THEN /\ err' = "RuntimeError"
          /\ pc' = "raised"
          /\ opened' = FALSE
     ELSE /\ err' = err
          /\ pc' = "props"
          /\ opened' = TRUE
  /\ UNCHANGED <<env, run, dir_exists, files, releases, divided_by_zero,
                 locals, logs, files_after_first>>

\* fps = cap.get(FPS); frame_count = int(cap.get(FRAME_COUNT));
\* duration = frame_count / fps
Props ==
  /\ pc = "props"
  /\ fps' = stream_fps
  /\ frame_count' = stream_frames
  /\ IF stream_fps = 0
     THEN /\ divided_by_zero' = TRUE
          /\ err' = "ZeroDivisionError"
          /\ pc' = "raised"
          /\ duration' = duration
     ELSE /\ divided_by_zero' = divided_by_zero
          /\ err' = err
          /\ pc' = "normalize"
          /\ duration' = <<stream_frames, stream_fps>>
  /\ UNCHANGED <<env, run, dir_exists, files, opened, releases, start_sec,
                 end_sec, sec, logs, files_after_first>>

\* start_sec = max(0, start_sec); end_sec clamped; inverted range raises
Normalize ==
  /\ pc = "normalize"
  /\ start_sec' = ClampStart(start_sec)
  /\ end_sec' = {ClampEnd(end_sec, duration)}
  /\ IF RangeInverted(start_sec', HeadOf(end_sec'))
     THEN /\ err' = "ValueError"
          /\ pc' = "raised"
          /\ sec' = sec
     ELSE /\ err' = err
          /\ pc' = "loop"
          /\ sec' = start_sec'
  /\ UNCHANGED <<env, run, dir_exists, files, opened, releases, fps,
                 frame_count, duration, divided_by_zero, logs,
                 files_after_first>>

\* for sec in range(start_sec, end_sec + 1): the test of the loop
LoopTest ==
  /\ pc = "loop"
  /\ pc' = IF InRange(sec, HeadOf(end_sec)) THEN "seek" ELSE "release"
  /\ UNCHANGED <<env, run, dir_exists, files, opened, releases,
                 divided_by_zero, locals, logs, err, files_after_first>>

\* cap.set(cv2.CAP_PROP_POS_MSEC, sec * 1000)
Seek ==
  /\ pc = "seek"
  /\ seeks' = Append(seeks, sec * 1000)
  /\ pc' = "read"
  /\ UNCHANGED <<env, run, dir_exists, files, opened, releases,
                 divided_by_zero, locals, reads, written, write_failed,
                 saved_log, stopped_early, err, files_after_first>>

\* ret, frame = cap.read(); if not ret: print(...); break
Read ==
  /\ pc = "read"
  /\ reads' = Append(reads, sec)
  /\ IF sec \in decode_fail
     THEN /\ stopped_early' = TRUE
          /\ pc' = "release"
     ELSE /\ stopped_early' = stopped_early
          /\ pc' = "write"
  /\ UNCHANGED <<env, run, dir_exists, files, opened, releases,
                 divided_by_zero, locals, seeks, written, write_failed,
                 saved_log, err, files_after_first>>

\* fname = ...; cv2.imwrite(fname, frame); print("Saved ...")
\* The value imwrite returns is discarded.
Write ==
  /\ pc = "write"
  /\ LET fname == FrameName(sec)
         out == WriteOutcome(sec)
     IN  /\ files' = IF out = "ok" THEN files \cup {fname} ELSE files
         /\ written' = IF out = "ok" THEN Append(written, sec) ELSE written
         /\ write_failed' =
              IF out = "ok" THEN write_failed ELSE write_failed \cup {sec}
         /\ IF out = "raise"
            THEN /\ err' = "cv2.error"
                 /\ pc' = "raised"
                 /\ saved_log' = saved_log
                 /\ sec' = sec
            ELSE /\ err' = err
                 /\ pc' = "loop"
                 /\ saved_log' = Append(saved_log, sec)
                 /\ sec' = sec + 1
  /\ UNCHANGED <<env, run, dir_exists, opened, releases, fps, frame_count,
                 duration, divided_by_zero, start_sec, end_sec, seeks, reads,
                 stopped_early, files_after_first>>

\* cap.release(); print("Done! ...")
Release ==
  /\ pc = "release"
  /\ releases' = releases + 1
  /\ pc' = "done"
  /\ UNCHANGED <<env, run, dir_exists, files, opened, divided_by_zero,
                 locals, logs, err, files_after_first>>

\* the same call made a second time with the same output directory
CallAgain ==
  /\ pc \in {"done", "raised"}
  /\ run = 1
  /\ run' = 2
  /\ files_after_first' = files
  /\ pc' = "makedirs"
  /\ opened' = FALSE
  /\ releases' = 0
  /\ fps' = 0
  /\ frame_count' = 0
  /\ duration' = <<0, 1>>
  /\ divided_by_zero' = FALSE
  /\ start_sec' = req_start
  /\ end_sec' = req_end
  /\ sec' = 0
  /\ seeks' = <<>>
  /\ reads' = <<>>
  /\ written' = <<>>
  /\ write_failed' = {}
  /\ saved_log' = <<>>
  /\ stopped_early' = FALSE
  /\ err' = "none"
  /\ UNCHANGED <<env, dir_exists, files>>

Next ==
  \/ MakeDirs
  \/ Resolve
  \/ Open
  \/ Props
  \/ Normalize
  \/ LoopTest
  \/ Seek
  \/ Read
  \/ Write
  \/ Release
  \/ CallAgain

Spec == Init /\ [][Next]_vars

\* ---- vocabulary of the properties --------------------------------------
Ended == pc \in {"done", "raised"}

\* the call has opened the stream, read a usable frame rate and executed
\* the normalisation of the range
Normalized == opened /\ stream_fps # 0 /\ pc \notin {"props", "normalize"}

\* floor(frame_count / frame_rate), by its defining inequality
FloorDuration ==
  CHOOSE k \in 0..stream_frames :
    k * stream_fps <= stream_frames /\ stream_frames < (k + 1) * stream_fps

ExpectedStart == IF req_start < 0 THEN 0 ELSE req_start

ExpectedEnd ==
  IF req_end = {} THEN FloorDuration
  ELSE IF HeadOf(req_end) > FloorDuration THEN FloorDuration
  ELSE HeadOf(req_end)

\* frame_<s padded to 4 digits>.jpg, digit by digit (s <= 9999)
Padded4(s) == <<(s \div 1000) % 10, (s \div 100) % 10, (s \div 10) % 10, s % 10>>

SeqRange(q) == {q[i] : i \in 1..Len(q)}

\* ---- C1 ----------------------------------------------------------------
\* C1: whenever a call that opened the stream has ended (normally, after an
\* early stop, or with an error raised after opening), the stream has been
\* released exactly once.
C1_ReleasedOnEveryExit == (Ended /\ opened) => releases = 1

\* ---- C2 ----------------------------------------------------------------
\* C2: once the write of second s has failed, the call is aborted with a
\* write error: nothing later than s is seeked, decoded or written, s is not
\* reported as saved and the call does not complete successfully.
C2_WriteFailureAborts ==
  \A s \in write_failed :
    /\ pc = "raised"
    /\ err = "cv2.error"
    /\ \A i \in 1..Len(seeks) : seeks[i] <= s * 1000
    /\ \A i \in 1..Len(reads) : reads[i] <= s
    /\ \A i \in 1..Len(written) : written[i] < s
    /\ s \notin SeqRange(saved_log)

\* ---- C3 ----------------------------------------------------------------
\* C3: a request whose range is inverted after normalization ends with the
\* range error (ValueError) and without any seek, decode or write; the
\* output directory gains no file.
C3_InvertedRangeRaises ==
  (Normalized /\ ExpectedStart > ExpectedEnd) =>
    /\ pc = "raised"
    /\ err = "ValueError"
    /\ seeks = <<>>
    /\ reads = <<>>
    /\ written = <<>>
    /\ write_failed = {}
    /\ files = files_after_first

C3_Witness ==
  /\ Normalized
  /\ req_end # {}
  /\ req_start > HeadOf(req_end)
  /\ HeadOf(req_end) >= 0
  /\ HeadOf(req_end) <= FloorDuration
  /\ err = "ValueError"

\* ---- C4 ----------------------------------------------------------------
\* C4: after decoding has failed at second sec, no error is raised, the
\* artifacts written are exactly those of ExpectedStart .. sec - 1, and no
\* seek or decode beyond sec has been attempted.
C4_DecodeFailStopsGracefully ==
  stopped_early =>
    /\ pc \in {"release", "done"}
    /\ err = "none"
    /\ SeqRange(written) = ExpectedStart..(sec - 1)
    /\ Len(written) = sec - ExpectedStart
    /\ Len(seeks) = sec - ExpectedStart + 1
    /\ Len(reads) = sec - ExpectedStart + 1
    /\ \A i \in 1..Len(seeks) : seeks[i] <= sec * 1000

\* ---- C5 ----------------------------------------------------------------
\* C5: the seconds whose artifacts were written in this call form a run of
\* consecutive integers in increasing order (strictly increasing, each at
\* most once, no second skipped between the first and the last).
C5_WrittenIncreasingContiguous ==
  \A i \in 1..(Len(written) - 1) : written[i + 1] = written[i] + 1

C7_ZeroFpsGuarded ==
  (opened /\ stream_fps = 0 /\ pc # "props") =>
    /\ ~divided_by_zero
    /\ pc = "raised"
    /\ err \notin {"none", "ZeroDivisionError"}
    /\ seeks = <<>>
    /\ reads = <<>>
    /\ written = <<>>

\* ---- C8 ----------------------------------------------------------------
\* C8: a call that completes with every decode and write successful has
\* written one artifact per second of the normalized closed range, in
\* order, and the directory holds exactly the files frame_<s as 4 digits>.
C8_ExactFrames ==
  (pc = "done" /\ ~stopped_early /\ write_failed = {}) =>
    /\ files = {Padded4(s) : s \in ExpectedStart..ExpectedEnd}
    /\ written = [i \in 1..(ExpectedEnd - ExpectedStart + 1) |->
                    ExpectedStart + i - 1]

C8_Witness ==
  /\ pc = "done"
  /\ ~stopped_early
  /\ write_failed = {}
  /\ req_start = 0
  /\ req_end = {}
  /\ FloorDuration >= 2
  /\ Cardinality(files) = FloorDuration + 1

\* ---- C9 ----------------------------------------------------------------
\* C9: after normalization the effective start second is 0 for a negative
\* requested start and the requested start otherwise, and no seek goes to a
\* negative timestamp.
C9_StartClamped ==
  /\ Normalized => start_sec = ExpectedStart
  /\ \A i \in 1..Len(seeks) : seeks[i] >= 0

C9_Witness ==
  /\ req_start < 0
  /\ Normalized
  /\ start_sec = 0
  /\ seeks # <<>>
  /\ seeks[1] = 0

\* ---- C10 ---------------------------------------------------------------
\* C10: when the same call has been made a second time with the same
\* directory and the same stream and filesystem behaviour, the directory
\* holds the same set of files as after the first call.
C10_RerunSameFiles == (run = 2 /\ Ended) => files = files_after_first

C10_Witness ==
  /\ run = 2
  /\ pc = "done"
  /\ Len(written) >= 2
  /\ Cardinality(files) >= 2

====
